---- MODULE Spec2Model ----
(***************************************************************************)
(* A model of package p4 (internal/p4): the line streamer cmdAndScan, the  *)
(* tagged-record parser runAndParseDepotFiles with its sort, the prefix    *)
(* resolver getDepotPrefix / getDepotName, the path codec EscapePath /     *)
(* UnescapePath, and the depth cache of StreamDepth / SetStreamName.       *)
(*                                                                         *)
(* Go strings are byte strings: a string is a sequence of byte values      *)
(* 0..255.  Go errors are records [kind, text, cause]; Nil is the nil      *)
(* error.                                                                  *)
(***************************************************************************)
EXTENDS Integers, Sequences, FiniteSets, TLC

\* ------------------------------------------------------------------ bounds

\* Most lines the command writes in one run, or the handler is called with.
MaxLines == 4
\* Longest input string of the prefix resolver.
MaxPrefixLen == 5
\* Largest depth handed to the prefix resolver.
MaxDepth == 2
\* Longest input string of the path codec.
MaxCodecLen == 3

\* ------------------------------------------------------------ byte strings

SetMin(S) == CHOOSE x \in S : \A y \in S : x <= y
SetMax(S) == CHOOSE x \in S : \A y \in S : x >= y

\* s[n:] and s[a:b] of Go, for indexes in range (0-based, b exclusive).
SliceFrom(s, n) == SubSeq(s, n + 1, Len(s))
Slice(s, a, b) == SubSeq(s, a + 1, b)

\* strings.HasPrefix
HasPrefix(s, p) == Len(s) >= Len(p) /\ SubSeq(s, 1, Len(p)) = p

\* unicode.IsSpace on the ASCII range: \t \n \v \f \r and the space.
IsSpace(b) == b \in {9, 10, 11, 12, 13, 32}

\* strings.TrimSpace
TrimSpace(s) ==
    LET keep == {i \in 1..Len(s) : ~IsSpace(s[i])}
    IN IF keep = {} THEN <<>> ELSE SubSeq(s, SetMin(keep), SetMax(keep))

\* strings.Index(s, "/"): the 0-based index of the first '/', or -1.
IndexSlash(s) ==
    LET hits == {i \in 1..Len(s) : s[i] = 47}
    IN IF hits = {} THEN -1 ELSE SetMin(hits) - 1

\* strings.ToLower on ASCII text.
ToLower(s) == [i \in 1..Len(s) |-> IF s[i] >= 65 /\ s[i] <= 90 THEN s[i] + 32 ELSE s[i]]

\* The < of Go strings: lexicographic on bytes.
StrLess(s, t) ==
    \E k \in 0..Len(s) :
        /\ k <= Len(t)
        /\ SubSeq(s, 1, k) = SubSeq(t, 1, k)
        /\ \/ (k = Len(s) /\ k < Len(t))
           \/ (k < Len(s) /\ k < Len(t) /\ s[k + 1] < t[k + 1])

\* ------------------------------------------------------------------ errors

Err(kind, text, cause) == [kind |-> kind, text |-> text, cause |-> cause]
Nil == Err("nil", <<>>, "")
\* io.EOF, io.ErrClosedPipe, bufio.ErrTooLong
EOF == Err("EOF", <<>>, "")
ErrClosedPipe == Err("io: read/write on closed pipe", <<>>, "")
ErrTooLong == Err("bufio.Scanner: token too long", <<>>, "")
\* The error RunErr gives for a command that could not start or exited non-zero.
ExitError == Err("exit status", <<>>, "")
\* fmt.Errorf(msg + ": %w", e)
Wrap(msg, e) == Err(msg, e.text, e.kind)

\* ---------------------------------------------------------- PrefixResolver

RECURSIVE PrefixWalk(_, _, _)
\* The loop of getDepotPrefix: i is the 0-based index reached, depth the
\* iterations left.
PrefixWalk(line, i, depth) ==
    IF depth > 0
    THEN PrefixWalk(line, i + IndexSlash(SliceFrom(line, i)) + 1, depth - 1)
    ELSE i

getDepotPrefix(line, depth) ==
    IF ~HasPrefix(line, <<47, 47>>)
    THEN [val |-> <<>>, err |-> Err("does not begin with '//'", line, "")]
    ELSE [val |-> Slice(line, 0, PrefixWalk(line, 2, depth)), err |-> Nil]

getDepotName(line) ==
    LET p == getDepotPrefix(line, 1)
    IN IF p.err # Nil THEN [val |-> <<>>, err |-> p.err]
       ELSE IF Len(p.val) < 3
       THEN [val |-> <<>>, err |-> Err("does not have a full depot prefix", line, "")]
       ELSE [val |-> Slice(p.val, 2, Len(p.val) - 1), err |-> Nil]

\* ------------------------------------------------------------ RecordParser

\* type DepotFile
DepotFile(path, action, cl, type, digest) ==
    [Path |-> path, Action |-> action, CL |-> cl, Type |-> type, Digest |-> digest]
EmptyFile == DepotFile(<<>>, <<>>, <<>>, <<>>, <<>>)

\* "... " and the tags of the -ztag output
Marker == <<46, 46, 46, 32>>
TagDepotFile == <<100, 101, 112, 111, 116, 70, 105, 108, 101>>
TagAction == <<97, 99, 116, 105, 111, 110>>
TagHeadAction == <<104, 101, 97, 100, 65, 99, 116, 105, 111, 110>>
TagChange == <<99, 104, 97, 110, 103, 101>>
TagHeadChange == <<104, 101, 97, 100, 67, 104, 97, 110, 103, 101>>
TagType == <<116, 121, 112, 101>>
TagHeadType == <<104, 101, 97, 100, 84, 121, 112, 101>>
TagDigest == <<100, 105, 103, 101, 115, 116>>

\* The parser's state between two lines, and what one call of the handler
\* leaves: err is the error returned, panicked an out-of-range slice.
ParseState(cur, prefix, out) ==
    [cur |-> cur, prefix |-> prefix, out |-> out, err |-> Nil, panicked |-> FALSE]

\* The blank-line case of the handler: the record boundary.
FlushRecord_Always(st) == [st EXCEPT !.out = Append(@, st.cur), !.cur = EmptyFile]
FlushRecord_KeepCur(st) ==
    IF Len(st.cur.Path) # 0 THEN FlushRecord_Always(st) ELSE st
FlushRecord(st) ==
    [st EXCEPT !.out = IF Len(st.cur.Path) # 0 THEN Append(@, st.cur) ELSE @,
               !.cur = EmptyFile]

\* The depotFile case of the handler.
DepotFileCase(st, depth, line) ==
    IF Len(line) < 14
    THEN [st EXCEPT !.panicked = TRUE]
    ELSE LET raw == TrimSpace(SliceFrom(line, 14))
             pr == IF Len(st.prefix) = 0
                   THEN getDepotPrefix(raw, depth)
                   ELSE [val |-> st.prefix, err |-> Nil]
         IN IF pr.err # Nil
            THEN [st EXCEPT !.prefix = pr.val,
                            !.err = Wrap("error parsing depot prefix", pr.err)]
            ELSE IF Len(raw) < Len(pr.val)
            THEN [st EXCEPT !.prefix = pr.val, !.panicked = TRUE]
            ELSE [st EXCEPT !.prefix = pr.val,
                            !.cur.Path = SliceFrom(raw, Len(pr.val))]

\* The func(rawLine string) error that runAndParseDepotFiles hands to cmdAndScan.
fnEachLine_FirstWins(st, depth, rawLine) ==
    LET line == TrimSpace(rawLine)
        rest == SliceFrom(line, 4)
    IN IF Len(line) = 0 THEN FlushRecord(st)
       ELSE IF Len(line) < 5 \/ ~HasPrefix(line, Marker)
       THEN [st EXCEPT !.err = Err("expected '... <tag>', but got", line, "")]
       ELSE IF HasPrefix(rest, TagDepotFile) THEN DepotFileCase(st, depth, line)
       ELSE IF HasPrefix(rest, TagAction)
       THEN [st EXCEPT !.cur.Action = IF @ = <<>> THEN TrimSpace(SliceFrom(line, 10)) ELSE @]
       ELSE IF HasPrefix(rest, TagHeadAction)
       THEN [st EXCEPT !.cur.Action = TrimSpace(SliceFrom(line, 14))]
       ELSE IF HasPrefix(rest, TagChange)
       THEN [st EXCEPT !.cur.CL = TrimSpace(SliceFrom(line, 10))]
       ELSE IF HasPrefix(rest, TagHeadChange)
       THEN [st EXCEPT !.cur.CL = TrimSpace(SliceFrom(line, 14))]
       ELSE IF HasPrefix(rest, TagType)
       THEN [st EXCEPT !.cur.Type = TrimSpace(SliceFrom(line, 8))]
       ELSE IF HasPrefix(rest, TagHeadType)
       THEN [st EXCEPT !.cur.Type = TrimSpace(SliceFrom(line, 12))]
       ELSE IF HasPrefix(rest, TagDigest)
       THEN [st EXCEPT !.cur.Digest = TrimSpace(SliceFrom(line, 10))]
       ELSE st
fnEachLine(st, depth, rawLine) ==
    LET line == TrimSpace(rawLine)
        rest == SliceFrom(line, 4)
    IN IF Len(line) = 0 THEN FlushRecord(st)
       ELSE IF Len(line) < 5 \/ ~HasPrefix(line, Marker)
       THEN [st EXCEPT !.err = Err("expected '... <tag>', but got", line, "")]
       ELSE IF HasPrefix(rest, TagDepotFile) THEN DepotFileCase(st, depth, line)
       ELSE IF HasPrefix(rest, TagAction)
       THEN [st EXCEPT !.cur.Action = TrimSpace(SliceFrom(line, 10))]
       ELSE IF HasPrefix(rest, TagHeadAction)
       THEN [st EXCEPT !.cur.Action = TrimSpace(SliceFrom(line, 14))]
       ELSE IF HasPrefix(rest, TagChange)
       THEN [st EXCEPT !.cur.CL = TrimSpace(SliceFrom(line, 10))]
       ELSE IF HasPrefix(rest, TagHeadChange)
       THEN [st EXCEPT !.cur.CL = TrimSpace(SliceFrom(line, 14))]
       ELSE IF HasPrefix(rest, TagType)
       THEN [st EXCEPT !.cur.Type = TrimSpace(SliceFrom(line, 8))]
       ELSE IF HasPrefix(rest, TagHeadType)
       THEN [st EXCEPT !.cur.Type = TrimSpace(SliceFrom(line, 12))]
       ELSE IF HasPrefix(rest, TagDigest)
       THEN [st EXCEPT !.cur.Digest = TrimSpace(SliceFrom(line, 10))]
       ELSE st

\* ----------------------------------------------------------- ResultOrderer

\* DepotFileCaseInsensitive.Less
Less_CaseSensitive(a, b) == StrLess(a.Path, b.Path)
Less(a, b) == StrLess(ToLower(a.Path), ToLower(b.Path))

RECURSIVE InsertLeft(_, _)
\* The inner loop of sort's insertionSort: the last element of xs moves left
\* while it is Less than its left neighbour.
InsertLeft(xs, j) ==
    IF j > 1 /\ Less(xs[j], xs[j - 1])
    THEN InsertLeft([xs EXCEPT ![j] = xs[j - 1], ![j - 1] = xs[j]], j - 1)
    ELSE xs

RECURSIVE InsertionSort(_, _)
\* sort.Sort on a slice of at most 12 elements is insertionSort(data, 0, n).
InsertionSort(xs, i) ==
    IF i > Len(xs) THEN xs ELSE InsertionSort(InsertLeft(xs, i), i + 1)

\* pdqsort's maxInsertion: a longer slice is not sorted by insertionSort alone.
maxInsertion == 12

\* order2 on the positions a and b, with the swaps counted so far.
order2(xs, a, b, swaps) ==
    IF Less(xs[b], xs[a])
    THEN [lo |-> b, hi |-> a, swaps |-> swaps + 1]
    ELSE [lo |-> a, hi |-> b, swaps |-> swaps]

\* median of the positions a, b, c, and the number of swaps it took.
median(xs, a, b, c) ==
    LET o1 == order2(xs, a, b, 0)
        o2 == order2(xs, o1.hi, c, o1.swaps)
        o3 == order2(xs, o1.lo, o2.lo, o2.swaps)
    IN [pivot |-> o3.hi, swaps |-> o3.swaps]

\* choosePivot(data, 0, n) for 8 <= n < 50 (no ninther): the median of the
\* elements at l/4, l/4*2 and l/4*3, counted from 0.  With at most three swaps
\* the hint is increasingHint (no swap) or unknownHint, never decreasingHint.
choosePivot(xs) ==
    LET q == Len(xs) \div 4
    IN median(xs, q + 1, q * 2 + 1, q * 3 + 1)

\* partialInsertionSort(data, 0, n) for n < 50 (shortestShifting): true when no
\* element is Less than its left neighbour, false at the first such pair; the
\* slice is not touched.
partialInsertionSort(xs) == \A i \in 2..Len(xs) : ~Less(xs[i], xs[i - 1])

RECURSIVE ScanUp(_, _, _)
\* for i <= j && data.Less(i, a) { i++ }   (a is position 1)
ScanUp(xs, i, j) == IF i <= j /\ Less(xs[i], xs[1]) THEN ScanUp(xs, i + 1, j) ELSE i

RECURSIVE ScanDown(_, _, _)
\* for i <= j && !data.Less(j, a) { j-- }
ScanDown(xs, i, j) == IF i <= j /\ ~Less(xs[j], xs[1]) THEN ScanDown(xs, i, j - 1) ELSE j

Swap(xs, i, j) == [xs EXCEPT ![i] = xs[j], ![j] = xs[i]]

RECURSIVE PartitionLoop(_, _, _)
\* partition's second loop, up to its final data.Swap(j, a): the data and the
\* pivot's new position.
PartitionLoop(xs, i, j) ==
    LET i2 == ScanUp(xs, i, j)
        j2 == ScanDown(xs, i2, j)
    IN IF i2 > j2
       THEN [data |-> Swap(xs, j2, 1), mid |-> j2]
       ELSE PartitionLoop(Swap(xs, i2, j2), i2 + 1, j2 - 1)

\* partition(data, 0, n, pivot): the pivot goes to the front, the elements Less
\* than it to its left, the others to its right.
partition(xs, pivot) ==
    LET d == Swap(xs, 1, pivot)
        i == ScanUp(d, 2, Len(d))
        j == ScanDown(d, i, Len(d))
    IN IF i > j
       THEN [data |-> Swap(d, j, 1), mid |-> j]
       ELSE PartitionLoop(Swap(d, i, j), i + 1, j - 1)

\* pdqsort(data, 0, n, limit) on a slice of maxInsertion + 1 elements: the first
\* round of its loop partitions (unless partialInsertionSort finds the slice in
\* order), and both sides, of at most maxInsertion elements, end in
\* insertionSort.  breakPatterns, partitionEqual and heapSort are not reached
\* at this length.
pdqsort(xs) ==
    LET cp == choosePivot(xs)
    IN IF cp.swaps = 0 /\ partialInsertionSort(xs)
       THEN xs
       ELSE LET p == partition(xs, cp.pivot)
            IN InsertionSort(SubSeq(p.data, 1, p.mid - 1), 2)
                   \o <<p.data[p.mid]>>
                   \o InsertionSort(SubSeq(p.data, p.mid + 1, Len(xs)), 2)

\* sort.Sort(DepotFileCaseInsensitive(out))
SortDepotFiles(xs) ==
    IF Len(xs) <= maxInsertion THEN InsertionSort(xs, 2) ELSE pdqsort(xs)

\* ------------------------------------------------------------- StreamDepth

\* streamDepth(stream): one less than the number of '/' in stream; an error
\* when that is less than 1.  (A '/' is one byte, and no other rune holds it.)
streamDepthCount(stream) ==
    LET count == Cardinality({i \in 1..Len(stream) : stream[i] = 47}) - 1
    IN IF count < 1
       THEN [val |-> 0, err |-> Err("unable to get stream depth", stream, "")]
       ELSE [val |-> count, err |-> Nil]

\* The keys of a client spec that begin with "View".
ViewKeys(spec) == {k \in DOMAIN spec : k \in {"View0"}}

\* Depot(), given what GetClientSpec returned: the depot of the Stream entry
\* when it is longer than 3 bytes, otherwise of a View entry.
Depot(cs) ==
    IF cs.err # Nil
    THEN [val |-> <<>>, err |-> Wrap("error getting depot", cs.err)]
    ELSE IF "Stream" \in DOMAIN cs.val /\ Len(cs.val["Stream"]) > 3
    THEN LET n == getDepotName(cs.val["Stream"])
         IN IF n.err # Nil
            THEN [val |-> <<>>, err |-> Wrap("error getting depot from stream", n.err)]
            ELSE n
    ELSE IF ViewKeys(cs.val) # {}
    THEN LET n == getDepotName(cs.val[CHOOSE k \in ViewKeys(cs.val) : TRUE])
         IN IF n.err # Nil
            THEN [val |-> <<>>, err |-> Wrap("error getting depot from mapping", n.err)]
            ELSE n
    ELSE [val |-> <<>>,
          err |-> Err("could not find any View or Stream entries in client spec", <<>>, "")]

\* if p.streamDepthCache > 0
cacheHit_Never(cache) == FALSE
cacheHit(cache) == cache > 0

\* StreamDepth after Depot() succeeded, given what GetDepotSpec returned: the
\* depth of the spec's StreamDepth field.
depthOfSpec(depot, ds) ==
    IF ds.err # Nil
    THEN [val |-> 0, err |-> ds.err]
    ELSE IF "StreamDepth" \notin DOMAIN ds.val
    THEN [val |-> 0, err |-> Err("no StreamDepth field in depot spec", depot, "")]
    ELSE streamDepthCount(ds.val["StreamDepth"])

\* defer p.streamMutex.Unlock()
Unlock_Skip(mutex) == mutex
Unlock(mutex) == 0

\* --------------------------------------------------------------- PathCodec

\* utf8.DecodeRuneInString(s[p-1:]) for p in 1..Len(s), as `for i, r := range s`
\* steps: the rune and its width; an invalid byte is RuneError (U+FFFD), width 1.
IsCont(s, p) == p <= Len(s) /\ s[p] >= 128 /\ s[p] <= 191
InRange(s, p, lo, hi) == p <= Len(s) /\ s[p] >= lo /\ s[p] <= hi
DecodeRune(s, p) ==
    LET b == s[p]
        bad == [r |-> 65533, size |-> 1]
    IN IF b < 128 THEN [r |-> b, size |-> 1]
       ELSE IF b >= 194 /\ b <= 223
       THEN IF IsCont(s, p + 1)
            THEN [r |-> (b % 32) * 64 + (s[p + 1] % 64), size |-> 2]
            ELSE bad
       ELSE IF b >= 224 /\ b <= 239
       THEN IF /\ InRange(s, p + 1, IF b = 224 THEN 160 ELSE 128, IF b = 237 THEN 159 ELSE 191)
               /\ IsCont(s, p + 2)
            THEN [r |-> (b % 16) * 4096 + (s[p + 1] % 64) * 64 + (s[p + 2] % 64), size |-> 3]
            ELSE bad
       ELSE IF b >= 240 /\ b <= 244
       THEN IF /\ InRange(s, p + 1, IF b = 240 THEN 144 ELSE 128, IF b = 244 THEN 143 ELSE 191)
               /\ IsCont(s, p + 2) /\ IsCont(s, p + 3)
            THEN [r |-> (b % 8) * 262144 + (s[p + 1] % 64) * 4096
                        + (s[p + 2] % 64) * 64 + (s[p + 3] % 64),
                  size |-> 4]
            ELSE bad
       ELSE bad

\* strings.Builder.WriteRune: the UTF-8 encoding of r, of RuneError for a value
\* that is no rune.
EncodeRune(r) ==
    IF r < 0 \/ r > 1114111 \/ (r >= 55296 /\ r <= 57343) THEN <<239, 191, 189>>
    ELSE IF r < 128 THEN <<r>>
    ELSE IF r < 2048 THEN <<192 + (r \div 64), 128 + (r % 64)>>
    ELSE IF r < 65536
    THEN <<224 + (r \div 4096), 128 + ((r \div 64) % 64), 128 + (r % 64)>>
    ELSE <<240 + (r \div 262144), 128 + ((r \div 4096) % 64),
           128 + ((r \div 64) % 64), 128 + (r % 64)>>

RECURSIVE EscapeFrom(_, _)
\* The second loop of EscapePath, from the rune at p.
EscapeFrom(path, p) ==
    IF p > Len(path) THEN <<>>
    ELSE LET d == DecodeRune(path, p)
             code == IF d.r = 64 THEN <<37, 52, 48>>
                     ELSE IF d.r = 35 THEN <<37, 50, 51>>
                     ELSE IF d.r = 42 THEN <<37, 50, 65>>
                     ELSE IF d.r = 37 THEN <<37, 50, 53>>
                     ELSE EncodeRune(d.r)
         IN code \o EscapeFrom(path, p + d.size)

EscapePath(path) == EscapeFrom(path, 1)

\* The value of a hexadecimal digit, -1 for any other byte.
HexVal(b) ==
    IF b >= 48 /\ b <= 57 THEN b - 48
    ELSE IF b >= 97 /\ b <= 102 THEN b - 87
    ELSE IF b >= 65 /\ b <= 70 THEN b - 55
    ELSE -1

RECURSIVE HexNumber(_)
HexNumber(ds) ==
    IF ds = <<>> THEN 0
    ELSE 16 * HexNumber(SubSeq(ds, 1, Len(ds) - 1)) + HexVal(ds[Len(ds)])

\* strconv.ParseInt(s, 16, 64) for the short strings UnescapePath hands it: an
\* optional sign, then one or more hexadecimal digits.
ParseInt16(s) ==
    LET signed == s # <<>> /\ s[1] \in {43, 45}
        ds == IF signed THEN Tail(s) ELSE s
    IN IF ds = <<>> \/ \E i \in 1..Len(ds) : HexVal(ds[i]) < 0
       THEN [ok |-> FALSE, val |-> 0]
       ELSE [ok |-> TRUE,
             val |-> IF signed /\ s[1] = 45 THEN 0 - HexNumber(ds) ELSE HexNumber(ds)]

RECURSIVE UnescapeFrom(_, _, _, _, _)
\* The loop of UnescapePath from the rune at p (1-based; start is the place of
\* the '%' of the escape being read), and what follows the loop.
UnescapeFrom(path, p, sb, escaped, start) ==
    IF p > Len(path)
    THEN IF escaped
         THEN [val |-> <<>>, err |-> Err("string ended before escaped character value", path, "")]
         ELSE [val |-> sb, err |-> Nil]
    ELSE LET d == DecodeRune(path, p)
         IN IF escaped
            THEN IF p - start >= 2
                 THEN LET c == ParseInt16(SubSeq(path, start + 1, p))
                      IN IF ~c.ok
                         THEN [val |-> <<>>,
                               err |-> Err("error parsing perforce-style escape code",
                                           SubSeq(path, start, p), "strconv.ParseInt")]
                         ELSE UnescapeFrom(path, p + d.size, sb \o EncodeRune(c.val), FALSE, start)
                 ELSE UnescapeFrom(path, p + d.size, sb, TRUE, start)
            ELSE IF d.r = 37
            THEN UnescapeFrom(path, p + d.size, sb, TRUE, p)
            ELSE UnescapeFrom(path, p + d.size, sb \o EncodeRune(d.r), FALSE, start)

UnescapePath(path) == UnescapeFrom(path, 1, <<>>, FALSE, 0)

\* ------------------------------------------------------------ the program

\* One run of runAndParseDepotFiles: the command's goroutine, the io.Pipe, the
\* bufio.Scanner and the handler.  The command's output is a sequence of lines
\* as bufio.ScanLines splits them (the text between end-of-line markers); the
\* last line may lack its newline.  Lines move through the pipe whole: a Write
\* carries one or more lines, and the Reads of one Scan take one or more of the
\* lines of the pending Write.
VARIABLES
    \* the command and its goroutine (cmdAndScan's go func)
    alphabet,     \* the lines the command may write in this run
    written,      \* the lines the command has handed to the pipe, in order
    wOpen,        \* the last of them has no terminating newline (yet)
    pending,      \* the lines of the blocked Write not read yet
    gpc,          \* "run" (in RunErr), "close" (before w.Close), "send", "done"
    cmdErr,       \* what RunErr returned
    \* the io.Pipe
    rerr,         \* the error the read side was closed with (Nil: open)
    werr,         \* the error the write side was closed with (Nil: open)
    \* the bufio.Scanner
    buf,          \* the lines read and not yet returned by Scan
    bufOpen,      \* the last line of buf has no terminating newline (yet)
    sErr,         \* s.err
    \* cmdAndScan and runAndParseDepotFiles
    mpc,          \* "scan", "recv" (at <-chCmd), "ret", "done", "panic";
                  \* "parse" when only the handler's calls are followed
    scanRet,      \* what cmdAndScan returned
    streamDepth,  \* what StreamDepth returned
    cur, prefix, out,
    result,       \* what runAndParseDepotFiles returned
    \* history
    delivered,    \* the lines fnEachLine was called with, in order
    hErr,         \* the first error fnEachLine returned (Nil: none)
    \* getDepotPrefix / getDepotName called on their own
    pLine, pDepth, pRes, pName,
    \* EscapePath / UnescapePath called on their own
    cIn, cEsc, cDec, cRaw,
    \* the P4 value shared by the callers of StreamDepth and SetStreamName
    streamMutex,       \* 0: unlocked; otherwise the caller that holds it
    streamDepthCache,
    tpc,               \* each caller's position: "idle", "sd_lock", "sd_check",
                       \* "sd_depot", "sd_spec", "sn_lock", "sn_set"
    tdepot,            \* each caller's local depot
    tret,              \* what each caller's last call returned
    calls,             \* the calls made so far
    \* history
    tq,                \* the specs each caller has queried in its current call
    lastDepth          \* the depth the last successful StreamDepth returned
                       \* since the last SetStreamName returned (0: none)

cmdVars == <<alphabet, written, wOpen, pending, gpc, cmdErr>>
pipeVars == <<rerr, werr>>
scanVars == <<buf, bufOpen, sErr>>
parseVars == <<streamDepth, cur, prefix, out>>
mainVars == <<mpc, scanRet, result, delivered, hErr>>
runVars == <<cmdVars, pipeVars, scanVars, parseVars, mainVars>>
prefixVars == <<pLine, pDepth, pRes, pName>>
codecVars == <<cIn, cEsc, cDec, cRaw>>
depthVars == <<streamMutex, streamDepthCache, tpc, tdepot, tret, calls, tq, lastDepth>>
vars == <<runVars, prefixVars, codecVars, depthVars>>

\* A value for what has not been computed.
None == [val |-> <<>>, err |-> Err("not called", <<>>, "")]

\* ------------------------------------------------------------- the inputs

\* Stands for a line longer than bufio.MaxScanTokenSize: its bytes are never
\* looked at, since the Scanner never returns it.
LongLine == <<-1>>

\* "... depotFile <value>" and "... action <value>"
DepotFileLine(v) == Marker \o TagDepotFile \o <<32>> \o v
ActionLine(v) == Marker \o TagAction \o <<32>> \o v

\* The lines of a run: a blank line, "... depotFile //d/a", "... depotFile //D/B",
\* "... depotFile //d/" (a value that is all prefix), "... action e",
\* the malformed "bad", and a line too long for the Scanner.
LineSet ==
    { <<>>,
      DepotFileLine(<<47, 47, 100, 47, 97>>),
      DepotFileLine(<<47, 47, 68, 47, 66>>),
      DepotFileLine(<<47, 47, 100, 47>>),
      ActionLine(<<101>>),
      <<98, 97, 100>>,
      LongLine }

\* What StreamDepth returns in a run: the depth of the depot //d.
StreamDepths == {1}

RunIdle ==
    /\ alphabet = {} /\ written = <<>> /\ wOpen = FALSE /\ pending = <<>>
    /\ gpc = "done" /\ cmdErr = Nil /\ rerr = Nil /\ werr = Nil
    /\ buf = <<>> /\ bufOpen = FALSE /\ sErr = Nil
    /\ mpc = "idle" /\ scanRet = Nil /\ streamDepth = 0
    /\ cur = EmptyFile /\ prefix = <<>> /\ out = <<>>
    /\ result = [list |-> <<>>, err |-> Nil]
    /\ delivered = <<>> /\ hErr = Nil
PrefixIdle == pLine = <<>> /\ pDepth = 0 /\ pRes = None /\ pName = None
CodecIdle == cIn = <<>> /\ cEsc = <<>> /\ cDec = None /\ cRaw = None

\* The goroutines that call StreamDepth and SetStreamName on the P4 value.
Threads == {1, 2}

\* What a call returned: StreamDepth's (int, error), SetStreamName's error.
Ret(op, depth, err) == [op |-> op, depth |-> depth, err |-> err]
NoRet == Ret("none", 0, Nil)

\* New(): the mutex unlocked, the cache 0, nobody calling.
DepthIdle ==
    /\ streamMutex = 0 /\ streamDepthCache = 0
    /\ tpc = [t \in Threads |-> "idle"]
    /\ tdepot = [t \in Threads |-> <<>>]
    /\ tret = [t \in Threads |-> NoRet]
    /\ calls = 0
    /\ tq = [t \in Threads |-> 0]
    /\ lastDepth = 0

\* runAndParseDepotFiles up to its call of cmdAndScan, and cmdAndScan up to
\* its loop: the pipe is open, the goroutine runs the command, nothing is read.
Init ==
    /\ alphabet = LineSet
    /\ written = <<>> /\ wOpen = FALSE /\ pending = <<>>
    /\ gpc = "run" /\ cmdErr = Nil
    /\ rerr = Nil /\ werr = Nil
    /\ buf = <<>> /\ bufOpen = FALSE /\ sErr = Nil
    /\ mpc = "scan" /\ scanRet = Nil
    /\ streamDepth \in StreamDepths
    /\ cur = EmptyFile /\ prefix = <<>> /\ out = <<>>
    /\ result = [list |-> <<>>, err |-> Nil]
    /\ delivered = <<>> /\ hErr = Nil
    /\ PrefixIdle /\ CodecIdle /\ DepthIdle

\* ------------------------------------------------- the command's goroutine

\* Sequences of 1..n lines of S.
Chunks(S, n) == UNION {[1..k -> S] : k \in 1..n}

\* p.sh.Cmd(cmd).Out(w).RunErr(): the command writes its next lines; the Write
\* blocks until the reader has taken them all.
CmdWrite ==
    /\ gpc = "run" /\ mpc # "panic"
    /\ pending = <<>> /\ ~wOpen /\ rerr = Nil
    /\ Len(written) < MaxLines
    /\ \E chunk \in Chunks(alphabet, MaxLines - Len(written)), open \in BOOLEAN :
        /\ open => chunk[Len(chunk)] # <<>>
        /\ written' = written \o chunk
        /\ pending' = chunk
        /\ wOpen' = open
    /\ UNCHANGED <<alphabet, gpc, cmdErr, pipeVars, scanVars, parseVars, mainVars,
                   prefixVars, codecVars, depthVars>>

\* A Write on the pipe whose read side is closed fails with the reader's error
\* (pipe.writeCloseError); the command unwinds, and RunErr gives either the
\* process's own error or the failed Write's.
CmdWriteFail ==
    /\ gpc = "run" /\ mpc # "panic"
    /\ rerr # Nil
    /\ \E e \in {ExitError, rerr} : cmdErr' = e
    /\ pending' = <<>>
    /\ gpc' = "close"
    /\ UNCHANGED <<alphabet, written, wOpen, pipeVars, scanVars, parseVars, mainVars,
                   prefixVars, codecVars, depthVars>>

\* The command ends with all it wrote taken by the reader: RunErr gives nil, or
\* the error of a command that could not start or exited non-zero.
CmdExit ==
    /\ gpc = "run" /\ mpc # "panic"
    /\ pending = <<>>
    /\ \E e \in {Nil, ExitError} : cmdErr' = e
    /\ gpc' = "close"
    /\ UNCHANGED <<alphabet, written, wOpen, pending, pipeVars, scanVars, parseVars,
                   mainVars, prefixVars, codecVars, depthVars>>

\* w.Close(): pipe.closeWrite(nil) stores io.EOF.
CmdClose ==
    /\ gpc = "close" /\ mpc # "panic"
    /\ werr' = IF werr = Nil THEN EOF ELSE werr
    /\ gpc' = "send"
    /\ UNCHANGED <<alphabet, written, wOpen, pending, cmdErr, rerr, scanVars, parseVars,
                   mainVars, prefixVars, codecVars, depthVars>>

\* ------------------------------------------------------------- the Scanner

\* pipe.readCloseError
readCloseError == IF rerr = Nil /\ werr # Nil THEN werr ELSE ErrClosedPipe

\* The buffer has reached MaxScanTokenSize with no newline in it.
BufFull == buf # <<>> /\ Head(buf) = LongLine

\* ScanLines finds a token: a whole line, or at the end of input what is left.
TokenReady ==
    /\ buf # <<>> /\ Head(buf) # LongLine
    /\ (Len(buf) > 1 \/ ~bufOpen \/ sErr # Nil)

\* bufio.ScanLines on a buffer that holds a token: the first line is the token,
\* and the Scanner advances past it.
ScanLines_LastLine(b) == [token |-> b[Len(b)], rest |-> SubSeq(b, 1, Len(b) - 1)]
ScanLines(b) == [token |-> Head(b), rest |-> Tail(b)]

\* How many lines of p the Reads of one Scan can take.  A long line is read
\* by the Scan that finds no line before it, which reads on until its buffer
\* is full.
ReadLimit(p) ==
    LET longs == {i \in 1..Len(p) : p[i] = LongLine}
    IN IF longs = {} THEN Len(p)
       ELSE IF SetMin(longs) = 1 THEN 1 ELSE SetMin(longs) - 1

\* s.Scan() reads from the pipe: the close error of a closed pipe, or lines of
\* the pending Write, else it blocks.  Of a long line, the Read takes what
\* fits: all of it only if it is of exactly MaxScanTokenSize bytes and the last
\* thing written.
ScanRead ==
    /\ mpc = "scan" /\ ~TokenReady /\ ~BufFull /\ sErr = Nil
    /\ IF rerr # Nil \/ werr # Nil
       THEN /\ sErr' = readCloseError
            /\ UNCHANGED <<buf, bufOpen, pending>>
       ELSE /\ pending # <<>>
            /\ \E k \in 1..ReadLimit(pending), fits \in BOOLEAN :
                LET last == (k = Len(pending))
                    whole == IF pending[k] = LongLine THEN fits /\ last /\ wOpen ELSE TRUE
                IN /\ buf' = buf \o SubSeq(pending, 1, k)
                   /\ bufOpen' = ((last /\ wOpen) \/ ~whole)
                   /\ pending' = SubSeq(pending, IF whole THEN k + 1 ELSE k, Len(pending))
            /\ sErr' = sErr
    /\ UNCHANGED <<alphabet, written, wOpen, gpc, cmdErr, pipeVars, parseVars, mainVars,
                   prefixVars, codecVars, depthVars>>

\* s.Scan() returns true, and the loop body runs: fnEachLine(s.Text()), and
\* r.CloseWithError(err) when it fails (pipe.closeRead keeps the first error).
ScanToken ==
    /\ mpc = "scan" /\ TokenReady
    /\ LET line == ScanLines(buf).token
           st == fnEachLine(ParseState(cur, prefix, out), streamDepth, line)
       IN /\ buf' = ScanLines(buf).rest
          /\ bufOpen' = (bufOpen /\ Len(buf) > 1)
          /\ delivered' = Append(delivered, line)
          /\ cur' = st.cur /\ prefix' = st.prefix /\ out' = st.out
          /\ hErr' = IF hErr = Nil THEN st.err ELSE hErr
          /\ rerr' = IF st.err # Nil /\ rerr = Nil THEN st.err ELSE rerr
          /\ mpc' = IF st.panicked THEN "panic" ELSE "scan"
    /\ UNCHANGED <<cmdVars, werr, sErr, scanRet, streamDepth, result, prefixVars, codecVars, depthVars>>

\* s.Scan() returns false with ErrTooLong: the buffer is full and holds no line.
ScanTooLong ==
    /\ mpc = "scan" /\ BufFull
    /\ sErr' = ErrTooLong
    /\ mpc' = "recv"
    /\ UNCHANGED <<cmdVars, rerr, werr, buf, bufOpen, parseVars, scanRet, result, delivered,
                   hErr, prefixVars, codecVars, depthVars>>

\* s.Scan() returns false: the input has ended (s.err is set) and no token is left.
ScanEnd ==
    /\ mpc = "scan" /\ buf = <<>> /\ sErr # Nil
    /\ mpc' = "recv"
    /\ UNCHANGED <<cmdVars, pipeVars, scanVars, parseVars, scanRet, result, delivered,
                   hErr, prefixVars, codecVars, depthVars>>

\* s.Err(): io.EOF is no error.
ScannerErr == IF sErr = EOF THEN Nil ELSE sErr

\* What cmdAndScan returns, given what it received on chCmd.
cmdAndScanResult_ScanFirst(err) == IF ScannerErr # Nil THEN ScannerErr ELSE err
cmdAndScanResult(err) == IF err = Nil THEN ScannerErr ELSE err

\* err := <-chCmd meets the goroutine's chCmd <- err; cmdAndScan returns.
Recv ==
    /\ mpc = "recv" /\ gpc = "send"
    /\ scanRet' = cmdAndScanResult(cmdErr)
    /\ gpc' = "done"
    /\ mpc' = "ret"
    /\ UNCHANGED <<alphabet, written, wOpen, pending, cmdErr, pipeVars, scanVars, parseVars,
                   result, delivered, hErr, prefixVars, codecVars, depthVars>>

\* What runAndParseDepotFiles returns after cmdAndScan returned err.
parseResult_FlushLast(err, files) ==
    IF err # Nil
    THEN [list |-> <<>>, err |-> Wrap("error listing files", err)]
    ELSE [list |-> SortDepotFiles(IF Len(cur.Path) # 0 THEN Append(files, cur) ELSE files),
          err |-> Nil]
parseResult(err, files) ==
    IF err # Nil
    THEN [list |-> <<>>, err |-> Wrap("error listing files", err)]
    ELSE [list |-> SortDepotFiles(files), err |-> Nil]

\* runAndParseDepotFiles after cmdAndScan: the error wrapped, or the sorted list.
Return ==
    /\ mpc = "ret"
    /\ result' = parseResult(scanRet, out)
    /\ mpc' = "done"
    /\ UNCHANGED <<cmdVars, pipeVars, scanVars, parseVars, scanRet, delivered, hErr,
                   prefixVars, codecVars, depthVars>>

Next ==
    \/ CmdWrite \/ CmdWriteFail \/ CmdExit \/ CmdClose
    \/ ScanRead \/ ScanToken \/ ScanTooLong \/ ScanEnd
    \/ Recv \/ Return

Spec == Init /\ [][Next]_vars

\* ------------------------------------- the prefix resolver on its own

\* The bytes of a line: '/' and 'a'.
PrefixBytes == {47, 97}

\* The strings over B of at most n bytes.
Strings(B, n) == UNION {[1..k -> B] : k \in 0..n}

InitPrefix ==
    /\ RunIdle /\ CodecIdle /\ DepthIdle
    /\ pLine \in Strings(PrefixBytes, MaxPrefixLen)
    /\ pDepth \in 1..MaxDepth
    /\ pRes = None /\ pName = None

CallGetDepotPrefix ==
    /\ pRes = None
    /\ pRes' = getDepotPrefix(pLine, pDepth)
    /\ UNCHANGED <<runVars, codecVars, depthVars, pLine, pDepth, pName>>

CallGetDepotName ==
    /\ pName = None
    /\ pName' = getDepotName(pLine)
    /\ UNCHANGED <<runVars, codecVars, depthVars, pLine, pDepth, pRes>>

NextPrefix == CallGetDepotPrefix \/ CallGetDepotName

SpecPrefix == InitPrefix /\ [][NextPrefix]_vars

\* --------------------------------------------- the path codec on its own

\* The bytes of a path: % @ 2 5 + g, the two bytes of U+00E9, and 0xFF, which
\* no UTF-8 text holds.
CodecBytes == {37, 64, 50, 53, 43, 103, 195, 169, 255}

InitCodec ==
    /\ RunIdle /\ PrefixIdle /\ DepthIdle
    /\ cIn \in Strings(CodecBytes, MaxCodecLen)
    /\ cEsc = <<>> /\ cDec = None /\ cRaw = None

\* UnescapePath(EscapePath(cIn))
CallRoundTrip ==
    /\ cDec = None
    /\ cEsc' = EscapePath(cIn)
    /\ cDec' = UnescapePath(EscapePath(cIn))
    /\ UNCHANGED <<runVars, prefixVars, depthVars, cIn, cRaw>>

\* UnescapePath(cIn)
CallUnescape ==
    /\ cRaw = None
    /\ cRaw' = UnescapePath(cIn)
    /\ UNCHANGED <<runVars, prefixVars, depthVars, cIn, cEsc, cDec>>

NextCodec == CallRoundTrip \/ CallUnescape

SpecCodec == InitCodec /\ [][NextCodec]_vars

\* --------------------------------------------- the sort of a list of records

\* The paths of the records of a list to sort: "a" and "b".
SortPaths == {<<97>>, <<98>>}

\* The lengths of the lists: the longest that insertionSort sorts alone, and
\* the shortest that pdqsort partitions.
SortLens == {maxInsertion, maxInsertion + 1}

\* The record emitted as the i-th: its change number tells it from the others.
Emitted(path, i) == DepotFile(path, <<>>, <<48 + i>>, <<>>, <<>>)

\* cmdAndScan has returned nil after a run that emitted n records; the lines of
\* the run are left out.
InitSort ==
    /\ alphabet = {} /\ written = <<>> /\ wOpen = FALSE /\ pending = <<>>
    /\ gpc = "done" /\ cmdErr = Nil /\ rerr = Nil /\ werr = EOF
    /\ buf = <<>> /\ bufOpen = FALSE /\ sErr = EOF
    /\ mpc = "ret" /\ scanRet = Nil
    /\ streamDepth \in StreamDepths
    /\ cur = EmptyFile /\ prefix = <<47, 47, 100, 47>>
    /\ \E n \in SortLens : \E ps \in [1..n -> SortPaths] :
           out = [i \in 1..n |-> Emitted(ps[i], i)]
    /\ result = [list |-> <<>>, err |-> Nil]
    /\ delivered = <<>> /\ hErr = Nil
    /\ PrefixIdle /\ CodecIdle /\ DepthIdle

SpecSort == InitSort /\ [][Return]_vars

\* ------------------------------------- a run whose first depotFile line fails

\* The lines of such a run: a blank line, "... depotFile x" (a value without
\* "//"), "... depotFile //d/a", "... depotFile //D/b" and a line too long for
\* the Scanner.
RootLineSet ==
    { <<>>,
      DepotFileLine(<<120>>),
      DepotFileLine(<<47, 47, 100, 47, 97>>),
      DepotFileLine(<<47, 47, 68, 47, 98>>),
      LongLine }

\* As Init, with these lines.
InitRoots ==
    /\ alphabet = RootLineSet
    /\ written = <<>> /\ wOpen = FALSE /\ pending = <<>>
    /\ gpc = "run" /\ cmdErr = Nil
    /\ rerr = Nil /\ werr = Nil
    /\ buf = <<>> /\ bufOpen = FALSE /\ sErr = Nil
    /\ mpc = "scan" /\ scanRet = Nil
    /\ streamDepth \in StreamDepths
    /\ cur = EmptyFile /\ prefix = <<>> /\ out = <<>>
    /\ result = [list |-> <<>>, err |-> Nil]
    /\ delivered = <<>> /\ hErr = Nil
    /\ PrefixIdle /\ CodecIdle /\ DepthIdle

SpecRoots == InitRoots /\ [][Next]_vars

\* ------------------------------------------------- the handler on its own

HeadActionLine(v) == Marker \o TagHeadAction \o <<32>> \o v
TypeLine(v) == Marker \o TagType \o <<32>> \o v
HeadTypeLine(v) == Marker \o TagHeadType \o <<32>> \o v
ChangeLine(v) == Marker \o TagChange \o <<32>> \o v
HeadChangeLine(v) == Marker \o TagHeadChange \o <<32>> \o v

\* The lines the handler is called with: a blank line, "... depotFile //d/a",
\* "... action e", "... headAction d", "... type t", "... headType u",
\* "... change 7", "... headChange 8", "... actionOwner b", "... rev 1",
\* "... depotFile" and "... depotFile //".
ParseLineSet ==
    { <<>>,
      DepotFileLine(<<47, 47, 100, 47, 97>>),
      ActionLine(<<101>>),
      HeadActionLine(<<100>>),
      TypeLine(<<116>>),
      HeadTypeLine(<<117>>),
      ChangeLine(<<55>>),
      HeadChangeLine(<<56>>),
      Marker \o TagAction \o <<79, 119, 110, 101, 114, 32, 98>>,
      Marker \o <<114, 101, 118, 32, 49>>,
      Marker \o TagDepotFile,
      DepotFileLine(<<47, 47>>) }

\* runAndParseDepotFiles before its call of cmdAndScan; of cmdAndScan only the
\* calls of fnEachLine are followed.
InitParse ==
    /\ alphabet = ParseLineSet
    /\ written = <<>> /\ wOpen = FALSE /\ pending = <<>>
    /\ gpc = "done" /\ cmdErr = Nil /\ rerr = Nil /\ werr = Nil
    /\ buf = <<>> /\ bufOpen = FALSE /\ sErr = Nil
    /\ mpc = "parse" /\ scanRet = Nil
    /\ streamDepth \in StreamDepths
    /\ cur = EmptyFile /\ prefix = <<>> /\ out = <<>>
    /\ result = [list |-> <<>>, err |-> Nil]
    /\ delivered = <<>> /\ hErr = Nil
    /\ PrefixIdle /\ CodecIdle /\ DepthIdle

\* One call of fnEachLine, with any line: the body of cmdAndScan's loop, which
\* goes on after a call that returned an error (see ScanToken).
ParseLine ==
    /\ mpc = "parse" /\ Len(delivered) < MaxLines
    /\ \E line \in alphabet :
           LET st == fnEachLine(ParseState(cur, prefix, out), streamDepth, line)
           IN /\ delivered' = Append(delivered, line)
              /\ cur' = st.cur /\ prefix' = st.prefix /\ out' = st.out
              /\ hErr' = IF hErr = Nil THEN st.err ELSE hErr
              /\ rerr' = IF st.err # Nil /\ rerr = Nil THEN st.err ELSE rerr
              /\ mpc' = IF st.panicked THEN "panic" ELSE "parse"
    /\ UNCHANGED <<cmdVars, werr, scanVars, scanRet, streamDepth, result, prefixVars,
                   codecVars, depthVars>>

SpecParse == InitParse /\ [][ParseLine]_vars

\* ------------------------------- the callers of StreamDepth and SetStreamName

\* The calls made on the P4 value in one run.
MaxCalls == 4

\* What GetClientSpec may return: an error, a spec with the Stream "//d/s", a
\* spec with the View "//e/...", a spec with neither.
ClientSpecResults ==
    { [val |-> <<>>, err |-> ExitError],
      [val |-> ("Stream" :> <<47, 47, 100, 47, 115>>), err |-> Nil],
      [val |-> ("View0" :> <<47, 47, 101, 47, 46, 46, 46>>), err |-> Nil],
      [val |-> <<>>, err |-> Nil] }

\* What GetDepotSpec may return: an error, a spec without StreamDepth, and specs
\* with the StreamDepth "//d/1", "//d/1/2" and "d".
DepotSpecResults ==
    { [val |-> <<>>, err |-> Wrap("error getting depot", ExitError)],
      [val |-> <<>>, err |-> Nil],
      [val |-> ("StreamDepth" :> <<47, 47, 100, 47, 49>>), err |-> Nil],
      [val |-> ("StreamDepth" :> <<47, 47, 100, 47, 49, 47, 50>>), err |-> Nil],
      [val |-> ("StreamDepth" :> <<100>>), err |-> Nil] }

InitDepth == RunIdle /\ PrefixIdle /\ CodecIdle /\ DepthIdle

\* A return of caller t: the deferred Unlock runs, the call's result is r.
Returns(t, r) ==
    /\ tret' = [tret EXCEPT ![t] = r]
    /\ tpc' = [tpc EXCEPT ![t] = "idle"]
    /\ streamMutex' = Unlock(streamMutex)
    /\ lastDepth' = IF r.op = "SetStreamName" THEN 0
                    ELSE IF r.err = Nil THEN r.depth
                    ELSE lastDepth

\* A goroutine calls p.StreamDepth().
StreamDepthCall(t) ==
    /\ tpc[t] = "idle" /\ calls < MaxCalls
    /\ calls' = calls + 1
    /\ tpc' = [tpc EXCEPT ![t] = "sd_lock"]
    /\ tq' = [tq EXCEPT ![t] = 0]
    /\ UNCHANGED <<runVars, prefixVars, codecVars, streamMutex, streamDepthCache, tdepot,
                   tret, lastDepth>>

\* p.streamMutex.Lock() returns.
StreamDepthLock(t) ==
    /\ tpc[t] = "sd_lock" /\ streamMutex = 0
    /\ streamMutex' = t
    /\ tpc' = [tpc EXCEPT ![t] = "sd_check"]
    /\ UNCHANGED <<runVars, prefixVars, codecVars, streamDepthCache, tdepot, tret, calls,
                   tq, lastDepth>>

\* if p.streamDepthCache > 0 { return p.streamDepthCache, nil }
StreamDepthCheck(t) ==
    /\ tpc[t] = "sd_check"
    /\ IF cacheHit(streamDepthCache)
       THEN Returns(t, Ret("StreamDepth", streamDepthCache, Nil))
       ELSE /\ tpc' = [tpc EXCEPT ![t] = "sd_depot"]
            /\ UNCHANGED <<streamMutex, tret, lastDepth>>
    /\ UNCHANGED <<runVars, prefixVars, codecVars, streamDepthCache, tdepot, calls, tq>>

\* depot, err := p.Depot(), which queries the client spec.
StreamDepthDepot(t) ==
    /\ tpc[t] = "sd_depot"
    /\ \E cs \in ClientSpecResults :
           LET d == Depot(cs)
           IN IF d.err # Nil
              THEN Returns(t, Ret("StreamDepth", 0, d.err)) /\ UNCHANGED tdepot
              ELSE /\ tdepot' = [tdepot EXCEPT ![t] = d.val]
                   /\ tpc' = [tpc EXCEPT ![t] = "sd_spec"]
                   /\ UNCHANGED <<streamMutex, tret, lastDepth>>
    /\ tq' = [tq EXCEPT ![t] = @ + 1]
    /\ UNCHANGED <<runVars, prefixVars, codecVars, streamDepthCache, calls>>

\* depotSpec, err := p.GetDepotSpec(depot), and the rest of StreamDepth: the
\* StreamDepth field, streamDepth() of it, and the cache set on success.
StreamDepthSpec(t) ==
    /\ tpc[t] = "sd_spec"
    /\ \E ds \in DepotSpecResults :
           LET r == depthOfSpec(tdepot[t], ds)
           IN /\ streamDepthCache' = IF r.err = Nil THEN r.val ELSE streamDepthCache
              /\ Returns(t, Ret("StreamDepth", r.val, r.err))
    /\ tq' = [tq EXCEPT ![t] = @ + 1]
    /\ UNCHANGED <<runVars, prefixVars, codecVars, tdepot, calls>>

\* A goroutine calls p.SetStreamName(stream).
SetStreamNameCall(t) ==
    /\ tpc[t] = "idle" /\ calls < MaxCalls
    /\ calls' = calls + 1
    /\ tpc' = [tpc EXCEPT ![t] = "sn_lock"]
    /\ tq' = [tq EXCEPT ![t] = 0]
    /\ UNCHANGED <<runVars, prefixVars, codecVars, streamMutex, streamDepthCache, tdepot,
                   tret, lastDepth>>

\* p.streamMutex.Lock() returns.
SetStreamNameLock(t) ==
    /\ tpc[t] = "sn_lock" /\ streamMutex = 0
    /\ streamMutex' = t
    /\ tpc' = [tpc EXCEPT ![t] = "sn_set"]
    /\ UNCHANGED <<runVars, prefixVars, codecVars, streamDepthCache, tdepot, tret, calls,
                   tq, lastDepth>>

\* p.streamDepthCache = 0; return nil
SetStreamNameSet(t) ==
    /\ tpc[t] = "sn_set"
    /\ streamDepthCache' = 0
    /\ Returns(t, Ret("SetStreamName", 0, Nil))
    /\ UNCHANGED <<runVars, prefixVars, codecVars, tdepot, calls, tq>>

\* The steps of caller t that wait for nothing but the mutex.
LockStep(t) == StreamDepthLock(t) \/ SetStreamNameLock(t)

\* The steps of caller t between Lock and return.
BodyStep(t) ==
    StreamDepthCheck(t) \/ StreamDepthDepot(t) \/ StreamDepthSpec(t) \/ SetStreamNameSet(t)

NextDepth ==
    \E t \in Threads :
        \/ StreamDepthCall(t) \/ StreamDepthLock(t) \/ StreamDepthCheck(t)
        \/ StreamDepthDepot(t) \/ StreamDepthSpec(t)
        \/ SetStreamNameCall(t) \/ SetStreamNameLock(t) \/ SetStreamNameSet(t)

\* A caller inside a call runs on: the commands that fetch the specs return,
\* and sync.Mutex hands the lock to a goroutine that keeps waiting for it
\* (starvation mode).  No call has to be made.
SpecDepth ==
    /\ InitDepth /\ [][NextDepth]_vars
    /\ \A t \in Threads : WF_vars(BodyStep(t)) /\ SF_vars(LockStep(t))

\* ------------------------------------------------------------- the claims

IsPrefix(s, t) == Len(s) <= Len(t) /\ SubSeq(t, 1, Len(s)) = s
Count(xs, x) == Cardinality({i \in 1..Len(xs) : xs[i] = x})
IsPermutation(xs, ys) ==
    /\ Len(xs) = Len(ys)
    /\ \A i \in 1..Len(xs) : Count(xs, xs[i]) = Count(ys, xs[i])
Paths(xs) == [i \in 1..Len(xs) |-> xs[i].Path]
PathOnly(xs) == [i \in 1..Len(xs) |-> DepotFile(xs[i].Path, <<>>, <<>>, <<>>, <<>>)]

\* cmdAndScan has returned.
Returned == mpc \in {"ret", "done"}
\* runAndParseDepotFiles has returned.
Done == mpc = "done"

\* A non-blank line without the marker "... " and one more character.
IsMalformed(l) ==
    LET t == TrimSpace(l)
    IN /\ l # LongLine
       /\ t # <<>>
       /\ ~(Len(t) >= 5 /\ SubSeq(t, 1, 4) = Marker)

\* C1: if onLine returned an error e for some line, cmdAndScan returns exactly
\* e, whatever the command reports and whenever the command finished writing.
C1_HandlerErrorIsResult == (Returned /\ hErr # Nil) => scanRet = hErr

\* C2: if onLine was called with a malformed line, wherever it is in the
\* stream and with or without a terminating newline, runAndParseDepotFiles
\* returns a non-nil error and no record list.
C2_MalformedLineIsFatal ==
    (Done /\ \E i \in 1..Len(delivered) : IsMalformed(delivered[i]))
        => (result.err # Nil /\ result.list = <<>>)

\* C3: the parser emits exactly one record for each blank line at which the
\* in-progress record has a non-empty Path, and nothing else; the record in
\* progress when the stream ends is not added to the returned list.
C3_OnlyBoundaryFlushedRecords ==
    [][ /\ out' = IF /\ delivered' # delivered
                     /\ TrimSpace(delivered'[Len(delivered')]) = <<>>
                     /\ cur.Path # <<>>
                  THEN Append(out, cur)
                  ELSE out
        /\ (mpc' = "done" /\ result'.err = Nil) => Len(result'.list) = Len(out)
      ]_vars

\* C3's case: a record was emitted at its blank line, and the stream ended with
\* another record in progress.
C3_Witness ==
    /\ Done /\ result.err = Nil
    /\ Len(result.list) = 1 /\ cur.Path # <<>>

\* C4: every record in the output list, and in the returned list, has a
\* non-empty Path.
C4_NoEmptyPathEmitted ==
    /\ \A i \in 1..Len(out) : out[i].Path # <<>>
    /\ \A i \in 1..Len(result.list) : result.list[i].Path # <<>>

\* C4's case: a record with an Action and no depotFile line, and a record whose
\* depotFile value is all prefix, have each met their blank line, after a
\* record that was emitted.
C4_Witness ==
    /\ Len(delivered) >= 4
    /\ delivered[2] = <<>> /\ Len(out) = 1
    /\ \E i \in 3..(Len(delivered) - 1) :
        /\ delivered[i] \in {ActionLine(<<101>>), DepotFileLine(<<47, 47, 100, 47>>)}
        /\ delivered[i + 1] = <<>>

\* C5 as stated: while no handler call has failed, the lines passed to onLine
\* are a prefix of the lines the command has written, and when the command has
\* finished normally the two sequences are equal.
C5_AllLinesWhenCommandSucceeds ==
    hErr = Nil =>
        /\ IsPrefix(delivered, written)
        /\ (Returned /\ cmdErr = Nil) => delivered = written

\* C5 as amended: while no handler call has failed, the lines passed to onLine
\* are a prefix of the lines the command has written, and when cmdAndScan
\* returns nil (the command finished normally and the Scanner met no error)
\* the two sequences are equal.
C5_InOrderAndAllWhenNil ==
    hErr = Nil =>
        /\ IsPrefix(delivered, written)
        /\ (Returned /\ scanRet = Nil) => delivered = written

\* C5's case: cmdAndScan has returned nil after the command wrote several
\* lines and each was passed to onLine.
C5_Witness ==
    /\ Returned /\ hErr = Nil /\ scanRet = Nil
    /\ Len(delivered) >= 3
    /\ delivered[1] # delivered[2]

\* C6: when onLine never failed, cmdAndScan returns the command's own error if
\* there is one, and otherwise the Scanner's error, nil when the stream ended
\* cleanly; a Scanner error never replaces a command error.
C6_CommandErrorThenScanError ==
    (Returned /\ hErr = Nil) =>
        /\ cmdErr \in {Nil, ExitError}
        /\ sErr \in {EOF, ErrTooLong}
        /\ cmdErr = ExitError => scanRet = ExitError
        /\ (cmdErr = Nil /\ sErr = EOF) => scanRet = Nil
        /\ (cmdErr = Nil /\ sErr = ErrTooLong) => scanRet = ErrTooLong

\* C6's case: the command failed and the Scanner failed too, and cmdAndScan
\* returned the command's error.
C6_Witness ==
    /\ Returned /\ hErr = Nil
    /\ cmdErr = ExitError /\ sErr = ErrTooLong /\ scanRet = ExitError

SlashesAfterRoot(line) == {i \in 3..Len(line) : line[i] = 47}

\* The place of the n-th of them.
NthSlash(line, n) ==
    CHOOSE i \in SlashesAfterRoot(line) :
        Cardinality({j \in SlashesAfterRoot(line) : j < i}) = n - 1

\* C9: getDepotPrefix(line, depth) returns an error whenever line does not
\* begin with "//" or has fewer than depth '/' after it, and otherwise the
\* prefix up to and including the depth-th '/' after the "//".
C9_PrefixFailsOnMissingSlashes ==
    pRes # None =>
        IF \/ ~(Len(pLine) >= 2 /\ pLine[1] = 47 /\ pLine[2] = 47)
           \/ Cardinality(SlashesAfterRoot(pLine)) < pDepth
        THEN pRes.err # Nil
        ELSE pRes = [val |-> SubSeq(pLine, 1, NthSlash(pLine, pDepth)), err |-> Nil]

IsHexDigit(b) == (b >= 48 /\ b <= 57) \/ (b >= 97 /\ b <= 102) \/ (b >= 65 /\ b <= 70)

\* Every '%' of s is followed by two hexadecimal digits.
WellEscaped(s) ==
    \A i \in 1..Len(s) :
        s[i] = 37 => (i + 2 <= Len(s) /\ IsHexDigit(s[i + 1]) /\ IsHexDigit(s[i + 2]))

\* C7: UnescapePath(EscapePath(s)) returns s and a nil error, for every s.
C7_RoundTrip == cDec # None => cDec = [val |-> cIn, err |-> Nil]

\* C8: UnescapePath returns a decoded string only when every '%' of its input
\* is followed by two hexadecimal digits, and an error otherwise.
C8_MalformedEscapeIsError == cRaw # None => (cRaw.err = Nil => WellEscaped(cIn))

\* C11: the sort is stable: records whose Paths are equal under case-folding are
\* returned in the order in which they were emitted, whatever the list's length.
C11_StableSort ==
    (Done /\ result.err = Nil) =>
        \A i, j \in 1..Len(result.list) :
            (/\ i < j
             /\ ToLower(result.list[i].Path) = ToLower(result.list[j].Path))
            => \E k, l \in 1..Len(out) :
                   k < l /\ out[k] = result.list[i] /\ out[l] = result.list[j]

\* A caller is between Lock and return in StreamDepth, in SetStreamName.
InStreamDepth(t) == tpc[t] \in {"sd_check", "sd_depot", "sd_spec"}
InSetStreamName(t) == tpc[t] = "sn_set"

\* C12: while an earlier StreamDepth has succeeded with d and SetStreamName has
\* not returned since, a StreamDepth call returns (d, nil) and queries neither
\* spec; SetStreamName returns with the cache 0; and a StreamDepth call that
\* follows it (or no success at all) queries the client spec, and when it
\* succeeds it has queried both specs and caches the depth it returns.
C12_CachedUntilReset ==
    [][\A t \in Threads :
          /\ (InStreamDepth(t) /\ tpc'[t] = "idle" /\ lastDepth > 0)
             => (tret'[t] = Ret("StreamDepth", lastDepth, Nil) /\ tq'[t] = 0)
          /\ (InSetStreamName(t) /\ tpc'[t] = "idle") => streamDepthCache' = 0
          /\ (InStreamDepth(t) /\ tpc'[t] = "idle" /\ lastDepth = 0)
             => /\ tq'[t] >= 1
                /\ tret'[t].err = Nil
                   => (tq'[t] = 2 /\ streamDepthCache' = tret'[t].depth)]_vars

\* One caller's StreamDepth returned depth 2 from the cache, and after a
\* SetStreamName another caller's StreamDepth computed depth 3.
C12_Witness ==
    \E t, u \in Threads :
        /\ tpc[t] = "idle" /\ tret[t] = Ret("StreamDepth", 2, Nil) /\ tq[t] = 0
        /\ tpc[u] = "idle" /\ tret[u] = Ret("StreamDepth", 3, Nil) /\ tq[u] = 2
        /\ lastDepth = 3

\* C13: a caller is between Lock and return (where streamDepthCache is read and
\* written) exactly when it holds streamMutex, so at most one caller is there,
\* and a caller that has returned, by whatever path, does not hold it; and a
\* caller that waits for the mutex gets it and returns.
C13_LockDiscipline ==
    /\ [](\A t \in Threads : (InStreamDepth(t) \/ InSetStreamName(t)) <=> streamMutex = t)
    /\ [](Cardinality({t \in Threads : tpc[t] \in {"sd_depot", "sd_spec"}}) <= 1)
    /\ \A t \in Threads : (tpc[t] \in {"sd_lock", "sn_lock"}) ~> (tpc[t] = "idle")

\* A caller whose StreamDepth returned an error waits for the mutex again,
\* while the other caller, who locked it after that return, recomputes.
C13_Witness ==
    \E t, u \in Threads :
        /\ tret[t].op = "StreamDepth" /\ tret[t].err # Nil /\ tpc[t] = "sd_lock"
        /\ streamMutex = u /\ tpc[u] = "sd_spec"

\* The tag of a line "... <tag> <value>": what stands between the marker and
\* the first space after it (or the line's end).
TagOf(l) ==
    LET rest == SubSeq(l, 5, Len(l))
        sp == {i \in 1..Len(rest) : rest[i] = 32}
    IN IF sp = {} THEN rest ELSE SubSeq(rest, 1, SetMin(sp) - 1)

\* What follows the name tag in the line l.
ValueAfter(l, tag) == TrimSpace(SubSeq(l, 5 + Len(tag), Len(l)))

\* The lines of the record in progress: those delivered since the last blank line.
RecordLines ==
    LET blanks == {i \in 1..Len(delivered) : delivered[i] = <<>>}
    IN IF blanks = {} THEN delivered
       ELSE SubSeq(delivered, SetMax(blanks) + 1, Len(delivered))

\* The step is a call of the handler with the line l.
Handles(l) == delivered' = Append(delivered, l)

\* The step is a call of the handler that emits a record.
Emits == \E l \in alphabet : Handles(l) /\ Len(out') = Len(out) + 1

\* Both tags of the pair appear in the lines ls.
BothAppear(ls, primary, alternate) ==
    /\ \E i \in 1..Len(ls) : TagOf(ls[i]) = primary
    /\ \E i \in 1..Len(ls) : TagOf(ls[i]) = alternate

\* The value of the last line of ls with the tag `tag`.
LastValue(ls, tag) ==
    ValueAfter(ls[SetMax({i \in 1..Len(ls) : TagOf(ls[i]) = tag})], tag)

\* The lines of ls that set the field of the pair: those whose tag begins with
\* one of the two names.
Setters(ls, primary, alternate) ==
    {i \in 1..Len(ls) : HasPrefix(TagOf(ls[i]), primary) \/ HasPrefix(TagOf(ls[i]), alternate)}

\* What the last of those lines gives the field: the text after the name.
LastSet(ls, primary, alternate) ==
    LET l == ls[SetMax(Setters(ls, primary, alternate))]
    IN IF HasPrefix(TagOf(l), primary) THEN ValueAfter(l, primary)
       ELSE ValueAfter(l, alternate)

\* C14 as claimed: when both tags of a pair appear in a record, the emitted
\* field holds the alternate (head*) tag's value, whatever the lines' order.
C14_AlternateWins ==
    [][Emits =>
          LET rec == out'[Len(out')]
          IN /\ BothAppear(RecordLines, TagAction, TagHeadAction)
                => rec.Action = LastValue(RecordLines, TagHeadAction)
             /\ BothAppear(RecordLines, TagType, TagHeadType)
                => rec.Type = LastValue(RecordLines, TagHeadType)
             /\ BothAppear(RecordLines, TagChange, TagHeadChange)
                => rec.CL = LastValue(RecordLines, TagHeadChange)]_vars

\* C14, amended: when both tags of a pair appear in a record, the emitted field
\* holds what the last line that sets the field gave it; each line whose tag
\* begins with the primary or the alternate name overwrites the field.
C14_LastLineWins ==
    [][Emits =>
          LET rec == out'[Len(out')]
          IN /\ BothAppear(RecordLines, TagAction, TagHeadAction)
                => rec.Action = LastSet(RecordLines, TagAction, TagHeadAction)
             /\ BothAppear(RecordLines, TagType, TagHeadType)
                => rec.Type = LastSet(RecordLines, TagType, TagHeadType)
             /\ BothAppear(RecordLines, TagChange, TagHeadChange)
                => rec.CL = LastSet(RecordLines, TagChange, TagHeadChange)]_vars

\* "... headAction d" came before "... action e", and the record is emitted
\* with the Action e.
C14_Witness ==
    /\ delivered = << DepotFileLine(<<47, 47, 100, 47, 97>>), HeadActionLine(<<100>>),
                      ActionLine(<<101>>), <<>> >>
    /\ Len(out) = 1 /\ out[1].Action = <<101>>

\* The eight tags of the handler's switch.
KnownTags ==
    {TagDepotFile, TagAction, TagHeadAction, TagChange, TagHeadChange, TagType,
     TagHeadType, TagDigest}

\* A line "... <tag> <value>" with a tag and a value.
IsTagged(l) ==
    /\ Len(l) >= 5 /\ SubSeq(l, 1, 4) = Marker
    /\ TagOf(l) # <<>> /\ ValueAfter(l, TagOf(l)) # <<>>

\* C15: a well-formed line whose tag is not exactly one of the eight tags leaves
\* the record in progress, the prefix and the list unchanged and gives no
\* error, also when its tag begins with the name of one of them.
C15_UnknownTagIgnored ==
    [][\A l \in alphabet :
          (Handles(l) /\ IsTagged(l) /\ TagOf(l) \notin KnownTags)
          => (cur' = cur /\ prefix' = prefix /\ out' = out /\ hErr' = hErr)]_vars

\* C17 as claimed: a blank line while the record in progress has an empty Path
\* changes nothing: not the record in progress, the prefix or the list.
C17_BlankIsNoOp ==
    [][(Handles(<<>>) /\ cur.Path = <<>>)
       => (cur' = cur /\ prefix' = prefix /\ out' = out)]_vars

\* C17, amended: a blank line while the record in progress has an empty Path
\* emits nothing and gives no error: the prefix and the list are unchanged, and
\* the record in progress becomes the empty record, whatever it had accumulated.
C17_BlankEmitsNothing ==
    [][(Handles(<<>>) /\ cur.Path = <<>>)
       => (cur' = EmptyFile /\ prefix' = prefix /\ out' = out /\ hErr' = hErr)]_vars

\* "... action e" and then a blank line: the Action is gone, nothing is emitted.
C17_Witness ==
    /\ delivered = <<ActionLine(<<101>>), <<>>>>
    /\ cur = EmptyFile /\ out = <<>> /\ hErr = Nil

\* C20: no call of the handler ends in an out-of-range slice: not on the line
\* "... depotFile" without a value, not on a depotFile value shorter than the
\* prefix.
C20_NoOutOfRange == mpc # "panic"

\* The delivered lines that take the handler's depotFile case, and their values.
DepotFileLines ==
    {i \in 1..Len(delivered) :
        /\ delivered[i] # LongLine
        /\ Len(delivered[i]) >= 14
        /\ SubSeq(delivered[i], 1, 4) = Marker
        /\ HasPrefix(SubSeq(delivered[i], 5, Len(delivered[i])), TagDepotFile)}
DepotFileValue(i) == TrimSpace(SubSeq(delivered[i], 15, Len(delivered[i])))

\* The Path is the value of a depotFile line without its first Len(prefix) bytes.
IsStripped(path) ==
    \E i \in DepotFileLines :
        /\ Len(DepotFileValue(i)) >= Len(prefix)
        /\ path = SubSeq(DepotFileValue(i), Len(prefix) + 1, Len(DepotFileValue(i)))

\* C16: the prefix, once computed, is the one getDepotPrefix gives for the first
\* depotFile line of the call and the depth StreamDepth returned, so it is
\* computed once and never changes; and every record's Path is its depotFile
\* value without the first Len(prefix) bytes, whatever the case of its root.
C16_PrefixFromFirstDepotFile ==
    /\ prefix # <<>>
       => /\ DepotFileLines # {}
          /\ prefix = getDepotPrefix(DepotFileValue(SetMin(DepotFileLines)), streamDepth).val
    /\ cur.Path # <<>> => IsStripped(cur.Path)
    /\ \A k \in 1..Len(out) : IsStripped(out[k].Path)

\* The goroutine is blocked in a Write on the pipe: lines are left to read, and
\* the read side is open, so the Write neither finishes nor fails.
WriteBlocked == gpc = "run" /\ pending # <<>> /\ rerr = Nil

\* cmdAndScan is blocked at <-chCmd: the scan loop has ended, the goroutine has
\* not reached its send.
RecvBlocked == mpc = "recv" /\ gpc # "send"

\* C18: cmdAndScan always returns: once the scan loop has ended, the goroutine
\* gets to its send on chCmd, so the two are never blocked at the same time,
\* the one on the channel and the other on the pipe.
C18_AlwaysReturns == ~(RecvBlocked /\ WriteBlocked)

\* C19: once onLine has returned an error, it is not called again, and the
\* record in progress, the prefix and the list are not modified.
C19_NoCallAfterHandlerError ==
    [][hErr # Nil
       => (delivered' = delivered /\ cur' = cur /\ prefix' = prefix /\ out' = out)]_vars

====
